---- MODULE Spec2Model ----
(***************************************************************************)
(* A model of playerprojections.py: the freshness-gated loaders            *)
(* (load_data / scrape_data / scrape_fantrax), the pipeline of main(), the  *)
(* merge add_d_and_stp, the normalisation analyze_data and the discrepancy  *)
(* extraction find_value.                                                   *)
(*                                                                         *)
(* Spec        : main() run repeatedly against a clock, a disk cache and   *)
(*               an external source that changes and may fail.             *)
(* SpecMerge   : add_d_and_stp applied to bounded pairs of tables.         *)
(* SpecAnalyze : analyze_data applied to bounded merged tables.            *)
(* SpecFind    : find_value applied to bounded pairs of ranked tables.     *)
(***************************************************************************)
EXTENDS Integers, Sequences, FiniteSets, TLC

VARIABLES
    \* ---- Spec: clock, disk cache, external source, main()'s position ----
    now,            \* time.time(), in seconds
    disk,           \* file name -> [exists, mtime, csv]
    pc,             \* main()'s position
    lastLoad,       \* what the most recent load call saw and returned
    fetchLoad,      \* file name -> the table returned by the load that wrote the snapshot
    fetchedAt,      \* file name -> time the snapshot's content left the source
    fetches,        \* file name -> source invocations during this run
    ran,            \* stages of main() executed in this run, in order
    sinks,          \* sinks that received a table in this run
    failed,         \* the file whose fetch raised in this run, or NoFile
    runs,           \* runs of main() started
    ticks,          \* clock advances taken
    \* ---- SpecMerge: add_d_and_stp ----
    heap,           \* object id -> DataFrame (Python references)
    all_strengths,  \* main()'s reference to the all-strengths table
    even_strength,  \* main()'s reference to the even-strength table
    all_stats_df,   \* the reference add_d_and_stp returned, or NoRef
    heap0,          \* the heap when add_d_and_stp was called
    raised,         \* the exception the call raised, or "none"
    \* ---- SpecAnalyze: analyze_data ----
    merged,         \* the table passed to analyze_data
    dataframe,      \* analyze_data's working copy
    filtered_data,  \* the z-scores of the pass at hand: row -> category -> cell
    zseason,        \* the z-scores of the season pass, kept
    season_rankings,
    per_game_rankings,
    astep,          \* analyze_data's position
    \* ---- SpecFind: find_value ----
    fv_season,      \* the Season-Ranked table passed to find_value
    fv_pergame,     \* the PerGame-Ranked table passed to find_value
    fv_result,      \* the discrepancy table returned
    fstep           \* "input" | "done"

loaderVars == <<now, disk, pc, lastLoad, fetchLoad, fetchedAt, fetches,
                ran, sinks, failed, runs, ticks>>
mergeVars == <<heap, all_strengths, even_strength, all_stats_df, heap0, raised>>
analyzeVars == <<merged, dataframe, filtered_data, zseason, season_rankings,
                 per_game_rankings, astep>>
findVars == <<fv_season, fv_pergame, fv_result, fstep>>
vars == <<loaderVars, mergeVars, analyzeVars, findVars>>

(***************************************************************************)
(* Bounds of the model.                                                    *)
(***************************************************************************)
MaxRuns == 2
MaxTicks == 3
MaxRows == 2
MaxPlayers == 3
SCALE == 1000

(***************************************************************************)
(* Program constants.                                                      *)
(***************************************************************************)
hour == 3600
NROWS == 1000
DAY == 86400

ALL_STRENGTHS == "all_strengths.csv"
EVEN_STRENGTH == "even_strength.csv"
FANTRAX == "fantrax_data.csv"
StatFiles == {ALL_STRENGTHS, EVEN_STRENGTH}
Files == StatFiles \cup {FANTRAX}

NoName == "<None>"
NoTable == [index_name |-> NoName, index |-> <<>>, columns |-> <<>>, data |-> <<>>]
NoFile == "<none>"
NoSnapshot == [exists |-> FALSE, mtime |-> 0, csv |-> [header |-> <<>>, rows |-> <<>>]]
NoLoad == [file |-> NoFile]

(***************************************************************************)
(* Sequence helpers.                                                       *)
(***************************************************************************)
Take(s, n) == IF Len(s) <= n THEN s ELSE SubSeq(s, 1, n)
Range(s) == {s[i] : i \in DOMAIN s}

(***************************************************************************)
(* pandas I/O, as the loaders use it. A CSV is [header, rows]; a DataFrame  *)
(* is [index_name, index, columns, data].                                  *)
(***************************************************************************)
\* A header cell that is empty names no column: pandas calls it "Unnamed: k"
\* and, when it becomes the index, drops the name.
ColumnName(h, k) == IF h = "" THEN "Unnamed" ELSE h
IndexName(h) == IF h = "" THEN NoName ELSE h

\* pd.read_html(url, index_col=0)[0] / pd.read_csv(path, index_col=0, nrows=n)
ReadIndexed(csv, nrows) ==
    LET rows == Take(csv.rows, nrows)
    IN  [index_name |-> IndexName(csv.header[1]),
         index      |-> [i \in DOMAIN rows |-> rows[i][1]],
         columns    |-> Tail(csv.header),
         data       |-> [i \in DOMAIN rows |-> Tail(rows[i])]]

\* pd.read_csv(path, nrows=n): every column is data, the index is 0..n-1
ReadPlain(csv, nrows) ==
    LET rows == Take(csv.rows, nrows)
    IN  [index_name |-> NoName,
         index      |-> [i \in DOMAIN rows |-> i - 1],
         columns    |-> [k \in DOMAIN csv.header |-> ColumnName(csv.header[k], k)],
         data       |-> rows]

\* dataframe.to_csv(path): the index is written as the first column
ToCsv(df) ==
    [header |-> <<IF df.index_name = NoName THEN "" ELSE df.index_name>> \o df.columns,
     rows   |-> [i \in DOMAIN df.data |-> <<df.index[i]>> \o df.data[i]]]

(***************************************************************************)
(* The external sources: what each serves at time t. The numbers change   *)
(* with every game played, so no two instants serve the same table.       *)
(***************************************************************************)
\* naturalstattrick.com: an HTML table whose first, unnamed column numbers the rows
HtmlTable(file, t) ==
    [header |-> <<"", "Player", "GP", "Total Points">>,
     rows   |-> << <<1, 101, t, IF file = ALL_STRENGTHS THEN 10 + t ELSE 7 + t>>,
                   <<2, 102, t, 5 + t>> >>]

\* fantrax.com: the CSV export "Fantrax-Players-Fantasy Beard League.csv"
FantraxCsv(t) ==
    [header |-> <<"ID", "Player", "Score">>,
     rows   |-> << <<201, 101, 30 + t>>, <<202, 102, 20 + t>> >>]

(***************************************************************************)
(* The loaders.                                                            *)
(***************************************************************************)
\* A mutant of StatFresh: "<=" for "<".
StatFreshInclusive(mtime, t) == t - mtime <= hour

\* load_data: "current_time - modtime < hour"
StatFresh(mtime, t) == t - mtime < hour

\* scrape_fantrax: "modtime.date() == datetime.now(tz=UTC).date()"
ModifiedToday(mtime, t) == mtime \div DAY = t \div DAY

\* Whether the load of `file` at time t is served from the snapshot
CacheHit(file, t) ==
    /\ disk[file].exists
    /\ IF file \in StatFiles THEN StatFresh(disk[file].mtime, t)
                             ELSE ModifiedToday(disk[file].mtime, t)

\* The table a cache hit returns: pd.read_csv(file_path, index_col=0[, nrows=1000])
ReadSnapshot(file) ==
    IF file \in StatFiles THEN ReadIndexed(disk[file].csv, Len(disk[file].csv.rows))
                          ELSE ReadIndexed(disk[file].csv, NROWS)

\* scrape_data: read_html(url, index_col=0)[0], then to_csv(file_path)
\* download_data + read_csv: the export is moved to file_path, then read with no index_col
Fetched(file) ==
    IF file \in StatFiles
    THEN LET df == ReadIndexed(HtmlTable(file, now), Len(HtmlTable(file, now).rows))
         IN  [table |-> df, csv |-> ToCsv(df)]
    ELSE [table |-> ReadPlain(FantraxCsv(now), NROWS), csv |-> FantraxCsv(now)]

\* main(): the statement after each stage
NextStage(stage) ==
    CASE stage = "load_all"       -> "load_even"
      [] stage = "load_even"      -> "merge"
      [] stage = "merge"          -> "fantrax"
      [] stage = "fantrax"        -> "analyze"
      [] stage = "analyze"        -> "visualize"
      [] stage = "visualize"      -> "publish_season"
      [] stage = "publish_season" -> "publish_pergame"
      [] OTHER                    -> "done"

\* A mutant: the exception of a failed fetch is swallowed and main() goes on.
OnFetchErrorSwallowed(stage) == NextStage(stage)

\* An exception raised by the source is caught nowhere: it leaves main()
OnFetchError(stage) == "aborted"

\* One call of load_data(file) or scrape_fantrax(file) at main()'s position `stage`
Load(file, stage) ==
    /\ pc = stage
    /\ ran' = Append(ran, stage)
    /\ IF CacheHit(file, now)
       THEN /\ lastLoad' = [file |-> file, at |-> now, existed |-> TRUE,
                            mtime |-> disk[file].mtime, hit |-> TRUE, ok |-> TRUE,
                            invoked |-> 0,
                            table |-> ReadSnapshot(file)]
            /\ pc' = NextStage(stage)
            /\ UNCHANGED <<disk, fetches, fetchLoad, fetchedAt, failed>>
       ELSE /\ fetches' = [fetches EXCEPT ![file] = @ + 1]
            /\ \E ok \in BOOLEAN :
                 /\ lastLoad' = [file |-> file, at |-> now, existed |-> disk[file].exists,
                                 mtime |-> disk[file].mtime, hit |-> FALSE, ok |-> ok,
                                 invoked |-> fetches'[file] - fetches[file],
                                 table |-> IF ok THEN Fetched(file).table ELSE NoTable]
                 /\ IF ok
                    THEN /\ disk' = [disk EXCEPT ![file] =
                                        [exists |-> TRUE, mtime |-> now, csv |-> Fetched(file).csv]]
                         /\ fetchLoad' = [fetchLoad EXCEPT ![file] = Fetched(file).table]
                         /\ fetchedAt' = [fetchedAt EXCEPT ![file] = now]
                         /\ pc' = NextStage(stage)
                         /\ UNCHANGED failed
                    ELSE /\ failed' = file
                         /\ pc' = OnFetchError(stage)
                         /\ UNCHANGED <<disk, fetchLoad, fetchedAt>>
    /\ UNCHANGED <<now, sinks, runs, ticks>>
    /\ UNCHANGED <<mergeVars, analyzeVars, findVars>>

LoadAllStrengths == Load(ALL_STRENGTHS, "load_all")
LoadEvenStrength == Load(EVEN_STRENGTH, "load_even")
ScrapeFantrax == Load(FANTRAX, "fantrax")

\* A stage of main() that computes on the loaded tables
Compute(stage) ==
    /\ pc = stage
    /\ ran' = Append(ran, stage)
    /\ pc' = NextStage(stage)
    /\ UNCHANGED <<now, disk, lastLoad, fetchLoad, fetchedAt, fetches, sinks,
                   failed, runs, ticks>>
    /\ UNCHANGED <<mergeVars, analyzeVars, findVars>>

\* A stage of main() that hands a table to a sink
Emit(stage, sink) ==
    /\ pc = stage
    /\ ran' = Append(ran, stage)
    /\ sinks' = sinks \cup {sink}
    /\ pc' = NextStage(stage)
    /\ UNCHANGED <<now, disk, lastLoad, fetchLoad, fetchedAt, fetches,
                   failed, runs, ticks>>
    /\ UNCHANGED <<mergeVars, analyzeVars, findVars>>

Merge == Compute("merge")
Analyze == Compute("analyze")
Visualize == Emit("visualize", "chart")
PublishSeason == Emit("publish_season", "Season Rankings")
PublishPerGame == Emit("publish_pergame", "Per Game Rankings")

\* The script is started (again): nothing but the disk survives a run
StartRun ==
    /\ pc \in {"idle", "done", "aborted"}
    /\ runs < MaxRuns
    /\ runs' = runs + 1
    /\ pc' = "load_all"
    /\ ran' = <<>>
    /\ sinks' = {}
    /\ failed' = NoFile
    /\ fetches' = [f \in Files |-> 0]
    /\ UNCHANGED <<now, disk, lastLoad, fetchLoad, fetchedAt, ticks>>
    /\ UNCHANGED <<mergeVars, analyzeVars, findVars>>

\* The positions of main() at which the clock is read
LoadStages == {"load_all", "load_even", "fantrax"}

\* Time passes, and the sources move on with it. Only the loaders read the clock: the time that passes anywhere
\* else in a run, or between two runs, is accounted for before the next load.
TickSteps == {1, hour - 1, DAY - hour}
Tick ==
    /\ pc \in LoadStages
    /\ ticks < MaxTicks
    /\ \E d \in TickSteps : now' = now + d
    /\ ticks' = ticks + 1
    /\ UNCHANGED <<disk, pc, lastLoad, fetchLoad, fetchedAt, fetches, ran, sinks,
                   failed, runs>>
    /\ UNCHANGED <<mergeVars, analyzeVars, findVars>>

InitLoader ==
    /\ now = 0
    /\ disk = [f \in Files |-> NoSnapshot]
    /\ pc = "idle"
    /\ lastLoad = NoLoad
    /\ fetchLoad = [f \in Files |-> NoTable]
    /\ fetchedAt = [f \in Files |-> 0]
    /\ fetches = [f \in Files |-> 0]
    /\ ran = <<>>
    /\ sinks = {}
    /\ failed = NoFile
    /\ runs = 0
    /\ ticks = 0

IdleMerge ==
    /\ heap = <<>>
    /\ all_strengths = "None"
    /\ even_strength = "None"
    /\ all_stats_df = "None"
    /\ heap0 = <<>>
    /\ raised = "none"

IdleAnalyze ==
    /\ merged = <<>>
    /\ dataframe = <<>>
    /\ filtered_data = <<>>
    /\ zseason = <<>>
    /\ season_rankings = <<>>
    /\ per_game_rankings = <<>>
    /\ astep = "idle"

IdleFind ==
    /\ fv_season = <<>>
    /\ fv_pergame = <<>>
    /\ fv_result = <<>>
    /\ fstep = "idle"

Init == InitLoader /\ IdleMerge /\ IdleAnalyze /\ IdleFind

Next ==
    \/ StartRun
    \/ LoadAllStrengths
    \/ LoadEvenStrength
    \/ Merge
    \/ ScrapeFantrax
    \/ Analyze
    \/ Visualize
    \/ PublishSeason
    \/ PublishPerGame
    \/ Tick

Spec == Init /\ [][Next]_vars

(***************************************************************************)
(* Floating-point cells: a finite number, NaN, or an infinity.             *)
(***************************************************************************)
Num(v) == [k |-> "num", v |-> v]
NaN == [k |-> "nan", v |-> 0]
Inf(sign) == [k |-> "inf", v |-> sign]
IsNum(x) == x.k = "num"
IsNaN(x) == x.k = "nan"
IsInf(x) == x.k = "inf"

\* a - b in IEEE arithmetic
FSub(a, b) ==
    CASE IsNaN(a) \/ IsNaN(b)   -> NaN
      [] IsNum(a) /\ IsNum(b)   -> Num(a.v - b.v)
      [] IsInf(a) /\ IsNum(b)   -> a
      [] IsNum(a) /\ IsInf(b)   -> Inf(0 - b.v)
      [] OTHER                  -> IF a.v = b.v THEN NaN ELSE a

(***************************************************************************)
(* pandas Series and DataFrames, as the computations use them. A Series is *)
(* a sequence of [key, val]; a DataFrame is [index, columns, data], data[i] *)
(* a function from column names to cells.                                  *)
(***************************************************************************)
RECURSIVE Concat(_)
Concat(ss) == IF ss = <<>> THEN <<>> ELSE Head(ss) \o Concat(Tail(ss))

\* The integers of S in increasing order
RECURSIVE SortInts(_)
SortInts(S) ==
    IF S = {} THEN <<>>
    ELSE LET m == CHOOSE x \in S : \A y \in S : x <= y
         IN  <<m>> \o SortInts(S \ {m})

\* The elements of S in increasing rank (rank is a one-to-one function on S)
SortSet(S, rank) ==
    LET ranks == SortInts({rank[x] : x \in S})
    IN  [n \in DOMAIN ranks |-> CHOOSE x \in S : rank[x] = ranks[n]]

Keys(s) == [i \in DOMAIN s |-> s[i].key]
Positions(s, k) == {i \in DOMAIN s : s[i].key = k}

\* Series a - Series b, rank giving the order of the keys. Equal indexes subtract position by position; otherwise
\* the indexes are outer-joined in key order, a key held by one side only gives
\* NaN, and a key held several times gives every pairing of its rows.
SeriesSub(a, b, rank) ==
    IF Keys(a) = Keys(b)
    THEN [i \in DOMAIN a |-> [key |-> a[i].key, val |-> FSub(a[i].val, b[i].val)]]
    ELSE LET keys == SortSet(Range(Keys(a)) \cup Range(Keys(b)), rank)
             Block(k) ==
                 LET ia == SortInts(Positions(a, k))
                     ib == SortInts(Positions(b, k))
                 IN  IF ib = <<>> THEN [n \in DOMAIN ia |-> [key |-> k, val |-> NaN]]
                     ELSE IF ia = <<>> THEN [n \in DOMAIN ib |-> [key |-> k, val |-> NaN]]
                     ELSE Concat([n \in DOMAIN ia |->
                             [m \in DOMAIN ib |->
                                 [key |-> k, val |-> FSub(a[ia[n]].val, b[ib[m]].val)]]])
         IN  Concat([n \in DOMAIN keys |-> Block(keys[n])])

\* series.reindex(index): the value at each label of index, NaN where the
\* series has no such label (the labels of the series are unique)
Reindex(series, index) ==
    [i \in DOMAIN index |->
        IF Positions(series, index[i]) = {} THEN NaN
        ELSE series[CHOOSE n \in Positions(series, index[i]) : TRUE].val]

\* df[name], a Series over the frame's index
Column(df, name) == [i \in DOMAIN df.data |-> [key |-> df.index[i], val |-> df.data[i][name]]]

\* df[name] = values, values[i] the cell of row i: a new column goes last
SetColumn(df, name, values) ==
    [index   |-> df.index,
     columns |-> IF name \in Range(df.columns) THEN df.columns ELSE Append(df.columns, name),
     data    |-> [i \in DOMAIN df.data |-> (name :> values[i]) @@ df.data[i]]]

(***************************************************************************)
(* add_d_and_stp                                                           *)
(***************************************************************************)
NoRef == "None"
RefAll == "df1"
RefEven == "df2"
RefNew == "df3"

\* The order of the row labels of two frames: they are numbers
LabelOrder(df1, df2) == [l \in Range(df1.index) \cup Range(df2.index) |-> l]

\* The table add_d_and_stp leaves in df_all
MergedTable(df_all, df_even) ==
    LET dpoints == [i \in DOMAIN df_all.data |->
                       IF df_all.data[i]["Position"] = "D"
                       THEN df_all.data[i]["Total Points"] ELSE Num(0)]
        with_d  == SetColumn(df_all, "D Points", dpoints)
        diff    == SeriesSub(Column(with_d, "Total Points"),
                             Column(df_even, "Total Points"), LabelOrder(with_d, df_even))
    IN  SetColumn(with_d, "Special Teams Points", Reindex(diff, with_d.index))

\* A mutant: the columns are added to a copy of df_all, which is returned.
add_d_and_stp_copy(h, a, e) ==
    [heap |-> (RefNew :> MergedTable(h[a], h[e])) @@ h, ret |-> RefNew]

\* add_d_and_stp(df_all, df_even): both columns are assigned into the object
\* df_all refers to, and that reference is returned
add_d_and_stp(h, a, e) ==
    [heap |-> [h EXCEPT ![a] = MergedTable(h[a], h[e])], ret |-> a]

\* main(): all_stats_df = add_d_and_stp(all_strengths, even_strength)
AddDAndStp ==
    /\ all_stats_df = NoRef
    /\ heap0 = <<>>
    /\ heap0' = heap
    /\ heap' = add_d_and_stp(heap, all_strengths, even_strength).heap
    /\ all_stats_df' = add_d_and_stp(heap, all_strengths, even_strength).ret
    /\ raised' = "none"
    /\ UNCHANGED <<all_strengths, even_strength>>
    /\ UNCHANGED <<loaderVars, analyzeVars, findVars>>

\* The players the sources list: (Player, Team) identifies a row
Identities ==
    << [Player |-> "Sebastian Aho", Team |-> "CAR"],
       [Player |-> "Sebastian Aho", Team |-> "NYI"],
       [Player |-> "Mathew Barzal", Team |-> "NYI"] >>
PositionsPlayed == {"D", "C"}
AllPoints == {3, 5}
EvenPoints == {1, 2}

InjSeqs(S, n) == {q \in [1..n -> S] : \A i, j \in 1..n : i # j => q[i] # q[j]}

\* A table as load_data returns it: the source numbers its rows 1..n
StatTable(ids, pos, tp) ==
    [index   |-> [i \in DOMAIN ids |-> i],
     columns |-> <<"Player", "Team", "Position", "Total Points">>,
     data    |-> [i \in DOMAIN ids |->
                    [c \in {"Player", "Team", "Position", "Total Points"} |->
                        CASE c = "Player"   -> Identities[ids[i]].Player
                          [] c = "Team"     -> Identities[ids[i]].Team
                          [] c = "Position" -> pos[ids[i]]
                          [] OTHER          -> Num(tp[i])]]]

\* The two tables main() loads: each lists some players once, in its own order
InitMerge ==
    /\ \E n \in 1..MaxRows, m \in 1..MaxRows :
         \E ida \in InjSeqs(DOMAIN Identities, n), ide \in InjSeqs(DOMAIN Identities, m) :
           \E pos \in [DOMAIN Identities -> PositionsPlayed], tpa \in [1..n -> AllPoints],
              tpe \in [1..m -> EvenPoints] :
             heap = (RefAll :> StatTable(ida, pos, tpa)) @@ (RefEven :> StatTable(ide, pos, tpe))
    /\ all_strengths = RefAll
    /\ even_strength = RefEven
    /\ all_stats_df = NoRef
    /\ heap0 = <<>>
    /\ raised = "none"

MergeInit == InitLoader /\ InitMerge /\ IdleAnalyze /\ IdleFind

MergeNext == AddDAndStp

SpecMerge == MergeInit /\ [][MergeNext]_vars

(***************************************************************************)
(* analyze_data                                                            *)
(***************************************************************************)
COLUMN_ORDER ==
    <<"Player", "Team", "Position", "GP", "D Points", "Goals", "Total Assists", "Shots",
      "Special Teams Points", "Hits", "Shots Blocked", "Takeaways", "Faceoffs Won", "TOI">>
categories ==
    <<"D Points", "Goals", "Total Assists", "Shots", "Special Teams Points", "Hits",
      "Shots Blocked", "Takeaways", "Faceoffs Won", "TOI">>

\* A cell that holds text which is no number, such as "-"
Text == [k |-> "str", v |-> 0]

\* pd.to_numeric(column, errors="coerce"), cell by cell
to_numeric(x) == IF x.k = "str" THEN NaN ELSE x

RECURSIVE GCD(_, _)
GCD(a, b) == IF b = 0 THEN a ELSE GCD(b, a % b)
Abs(a) == IF a < 0 THEN 0 - a ELSE a
Sign(a) == IF a < 0 THEN 0 - 1 ELSE IF a > 0 THEN 1 ELSE 0

\* The finite number n / d in lowest terms, d > 0
Rat(n, d) ==
    LET g == GCD(Abs(n), d)
    IN  IF d \div g = 1 THEN Num(n \div g) ELSE [k |-> "num", v |-> n \div g, d |-> d \div g]
Den(x) == IF "d" \in DOMAIN x THEN x.d ELSE 1

\* x / g in IEEE arithmetic, x and g whole numbers or NaN
TrueDiv(x, g) ==
    CASE IsNaN(x) \/ IsNaN(g) -> NaN
      [] g.v = 0 /\ x.v = 0   -> NaN
      [] g.v = 0              -> Inf(Sign(x.v))
      [] OTHER                -> Rat(x.v, g.v)

RECURSIVE SeqSum(_)
SeqSum(q) == IF q = <<>> THEN 0 ELSE Head(q) + SeqSum(Tail(q))

\* The largest r with r * r <= n, for lo * lo <= n < hi * hi
RECURSIVE ISqrtIn(_, _, _)
ISqrtIn(n, lo, hi) ==
    IF hi - lo <= 1 THEN lo
    ELSE LET mid == (lo + hi) \div 2
         IN  IF mid * mid <= n THEN ISqrtIn(n, mid, hi) ELSE ISqrtIn(n, lo, mid)
\* (46340 is the largest integer whose square fits 32 bits)
ISqrt(n) == ISqrtIn(n, 0, IF n < 46340 THEN n + 1 ELSE 46340)

\* A common denominator of the finite cells of a column
RECURSIVE CommonDen(_)
CommonDen(col) ==
    IF col = <<>> THEN 1
    ELSE LET rest == CommonDen(Tail(col))
             d    == Den(Head(col))
         IN  (rest * d) \div GCD(rest, d)

\* scipy.stats.zscore(column): (a - a.mean()) / a.std(), ddof = 0, NaN propagated.
\* One cell that is NaN or infinite makes the mean, and with it every z-score
\* of the column, NaN; so does a column with no spread (0 / 0). A finite z-score
\* is kept in units of 1 / SCALE, rounded towards zero.
zscore(col) ==
    IF \E i \in DOMAIN col : ~IsNum(col[i])
    THEN [i \in DOMAIN col |-> NaN]
    ELSE LET L == CommonDen(col)
             y == [i \in DOMAIN col |-> col[i].v * (L \div Den(col[i]))]
             n == Len(col)
             S == SeqSum(y)
             Q == SeqSum([i \in DOMAIN y |-> y[i] * y[i]])
             D == n * Q - S * S
         IN  IF D = 0
             THEN [i \in DOMAIN col |-> NaN]
             ELSE [i \in DOMAIN col |->
                     LET a == n * y[i] - S
                     IN  Num(Sign(a) * ISqrt((a * a * SCALE * SCALE) \div D))]

\* dataframe[categories].apply(zscore): row -> category -> z-score
ZFrame(df) ==
    LET z == [c \in Range(categories) |-> zscore([i \in DOMAIN df.data |-> df.data[i][c]])]
    IN  [i \in DOMAIN df.data |-> [c \in Range(categories) |-> z[c][i]]]

\* filtered_data.sum(axis=1): NaN cells are skipped, a row of NaN sums to 0
RowSum(zrow) == Num(SeqSum([n \in DOMAIN categories |->
                    IF IsNum(zrow[categories[n]]) THEN zrow[categories[n]].v ELSE 0]))

\* dataframe.sort_values(by, ascending=False), kind="quicksort", of the Series
\* vals: the orders of the rows in which the values never increase. quicksort is not a stable sort:
\* rows of equal value come out in an order the library does not fix.
sort_values(vals) ==
    {p \in Permutations(DOMAIN vals) :
        \A r1, r2 \in DOMAIN vals : r1 < r2 => vals[p[r1]].val.v >= vals[p[r2]].val.v}

\* df with its rows in the order p
Reordered(df, p) ==
    [index   |-> [r \in DOMAIN df.data |-> df.index[p[r]]],
     columns |-> df.columns,
     data    |-> [r \in DOMAIN df.data |-> df.data[p[r]]]]

\* range(1, n + 1)
RangeFrom1(n) == [r \in 1..n |-> r]

\* df.loc[:, [by, *COLUMN_ORDER]], then insert(0, "Rank", range(1, n + 1))
Projected(df, by, n) ==
    [index   |-> df.index,
     columns |-> <<"Rank", by>> \o COLUMN_ORDER,
     data    |-> [r \in DOMAIN df.data |->
                    ("Rank" :> RangeFrom1(n)[r]) @@
                    [c \in {by} \cup Range(COLUMN_ORDER) |-> df.data[r][c]]]]

\* dataframe = dataframe.copy(); dataframe.index = dataframe.index + 1; every
\* category coerced with pd.to_numeric(errors="coerce")
Coerced(df) ==
    [index   |-> [i \in DOMAIN df.index |-> df.index[i] + 1],
     columns |-> df.columns,
     data    |-> [i \in DOMAIN df.data |->
                    [c \in DOMAIN df.data[i] |->
                        IF c \in Range(categories) THEN to_numeric(df.data[i][c])
                        ELSE df.data[i][c]]]]

\* dataframe[category] = dataframe[category] / dataframe["GP"], for every category
PerGame(df) ==
    [index   |-> df.index,
     columns |-> df.columns,
     data    |-> [i \in DOMAIN df.data |->
                    [c \in DOMAIN df.data[i] |->
                        IF c \in Range(categories) THEN TrueDiv(df.data[i][c], df.data[i]["GP"])
                        ELSE df.data[i][c]]]]

AnalyzeFrame(vs) ==
    /\ UNCHANGED merged
    /\ UNCHANGED vs
    /\ UNCHANGED <<loaderVars, mergeVars, findVars>>

\* lines 172-194: copy, shift the index, coerce the categories
Coerce ==
    /\ astep = "input"
    /\ dataframe' = Coerced(merged)
    /\ astep' = "coerced"
    /\ AnalyzeFrame(<<filtered_data, zseason, season_rankings, per_game_rankings>>)

\* line 195: filtered_data = dataframe[categories].apply(zscore)
SeasonZScores ==
    /\ astep = "coerced"
    /\ filtered_data' = ZFrame(dataframe)
    /\ zseason' = filtered_data'
    /\ astep' = "season_z"
    /\ AnalyzeFrame(<<dataframe, season_rankings, per_game_rankings>>)

\* lines 196-197: the Season Value column, and the sort by it
SeasonSort ==
    /\ astep = "season_z"
    /\ dataframe' = SetColumn(dataframe, "Season Value",
                              [i \in DOMAIN dataframe.data |-> RowSum(filtered_data[i])])
    /\ \E p \in sort_values(Column(dataframe', "Season Value")) :
         season_rankings' = Reordered(dataframe', p)
    /\ astep' = "season_sorted"
    /\ AnalyzeFrame(<<filtered_data, zseason, per_game_rankings>>)

\* lines 201-202: every category divided by GP
Normalize ==
    /\ astep = "season_sorted"
    /\ dataframe' = PerGame(dataframe)
    /\ astep' = "per_game"
    /\ AnalyzeFrame(<<filtered_data, zseason, season_rankings, per_game_rankings>>)

\* line 205: filtered_data = dataframe[categories].apply(zscore)
PerGameZScores ==
    /\ astep = "per_game"
    /\ filtered_data' = ZFrame(dataframe)
    /\ astep' = "per_game_z"
    /\ AnalyzeFrame(<<dataframe, zseason, season_rankings, per_game_rankings>>)

\* lines 206-207: the Per Game Value column, and the sort by it
PerGameSort ==
    /\ astep = "per_game_z"
    /\ dataframe' = SetColumn(dataframe, "Per Game Value",
                              [i \in DOMAIN dataframe.data |-> RowSum(filtered_data[i])])
    /\ \E p \in sort_values(Column(dataframe', "Per Game Value")) :
         per_game_rankings' = Reordered(dataframe', p)
    /\ astep' = "per_game_sorted"
    /\ AnalyzeFrame(<<filtered_data, zseason, season_rankings>>)

\* lines 211-220: both tables cut to their columns, Rank inserted, returned
RankAndReturn ==
    /\ astep = "per_game_sorted"
    /\ season_rankings' = Projected(season_rankings, "Season Value", Len(season_rankings.data))
    /\ per_game_rankings' = Projected(per_game_rankings, "Per Game Value", Len(season_rankings.data))
    /\ astep' = "done"
    /\ AnalyzeFrame(<<dataframe, filtered_data, zseason>>)

\* What the cells of the merged table may hold in the tables checked: the games
\* played, the cells of two categories; every other category holds 0
GamesPlayed == {0, 1, 2}
CellValues(c) == IF c = "Goals" THEN {Num(0), Num(2), Text} ELSE {Num(1), Num(3)}
FreeCategories == {"Goals", "Hits"}
RowCells == {f \in [FreeCategories -> {Num(0), Num(1), Num(2), Num(3), Text}] :
                \A c \in FreeCategories : f[c] \in CellValues(c)}

\* A merged table of n players, as add_d_and_stp returns it
MergedInput(gp, cells) ==
    [index   |-> [i \in DOMAIN gp |-> i],
     columns |-> COLUMN_ORDER,
     data    |-> [i \in DOMAIN gp |->
                    [c \in Range(COLUMN_ORDER) |->
                        CASE c = "Player"   -> Identities[i].Player
                          [] c = "Team"     -> Identities[i].Team
                          [] c = "Position" -> "C"
                          [] c = "GP"       -> Num(gp[i])
                          [] c \in FreeCategories -> cells[i][c]
                          [] OTHER          -> Num(0)]]]

InitAnalyze ==
    /\ \E n \in 1..MaxPlayers :
         \E gp \in [1..n -> GamesPlayed], cells \in [1..n -> RowCells] :
            merged = MergedInput(gp, cells)
    /\ dataframe = <<>>
    /\ filtered_data = <<>>
    /\ zseason = <<>>
    /\ season_rankings = <<>>
    /\ per_game_rankings = <<>>
    /\ astep = "input"

AnalyzeInit == InitLoader /\ IdleMerge /\ InitAnalyze /\ IdleFind

AnalyzeNext ==
    \/ Coerce
    \/ SeasonZScores
    \/ SeasonSort
    \/ Normalize
    \/ PerGameZScores
    \/ PerGameSort
    \/ RankAndReturn

SpecAnalyze == AnalyzeInit /\ [][AnalyzeNext]_vars

(***************************************************************************)
(* find_value                                                              *)
(***************************************************************************)
gp_min == 5
TOP == 50

\* The rows of df at the positions in keep, in df's order
Rows(df, keep) ==
    LET at == SortInts(keep)
    IN  [index   |-> [r \in DOMAIN at |-> df.index[at[r]]],
         columns |-> df.columns,
         data    |-> [r \in DOMAIN at |-> df.data[at[r]]]]

\* df.set_index("Player"): the Player column becomes the row labels
SetIndexPlayer(df) ==
    [index   |-> [r \in DOMAIN df.data |-> df.data[r]["Player"]],
     columns |-> SelectSeq(df.columns, LAMBDA c : c # "Player"),
     data    |-> [r \in DOMAIN df.data |->
                    [c \in DOMAIN df.data[r] \ {"Player"} |-> df.data[r][c]]]]

\* df[df["GP"] > gp_min]
FilterGP(df) ==
    Rows(df, {r \in DOMAIN df.data : IsNum(df.data[r]["GP"]) /\ df.data[r]["GP"].v > gp_min})

\* The alphabetical order of the player names
PlayerNames == <<"Mathew Barzal", "Sebastian Aho">>
NameOrder == [n \in Range(PlayerNames) |-> CHOOSE i \in DOMAIN PlayerNames : PlayerNames[i] = n]

\* discrepancy_df[discrepancy_df["Discrepancy"] > 0], before the sort: Per Game
\* Value minus Season Value, both Series keyed by Player alone
Discrepancies(season, per_game) ==
    LET se   == FilterGP(SetIndexPlayer(season))
        pg   == FilterGP(SetIndexPlayer(per_game))
        diff == SeriesSub(Column(pg, "Per Game Value"), Column(se, "Season Value"), NameOrder)
    IN  SelectSeq(diff, LAMBDA x : IsNum(x.val) /\ x.val.v > 0)

\* find_value(season_rankings, per_game_rankings): sorted by Discrepancy,
\* largest first, and cut to the first 50
FindValue ==
    /\ fstep = "input"
    /\ LET filtered_discrepancy == Discrepancies(fv_season, fv_pergame)
       IN  \E p \in sort_values(filtered_discrepancy) :
              fv_result' = Take([r \in DOMAIN p |-> filtered_discrepancy[p[r]]], TOP)
    /\ fstep' = "done"
    /\ UNCHANGED <<fv_season, fv_pergame>>
    /\ UNCHANGED <<loaderVars, mergeVars, analyzeVars>>

\* What the rows of the ranked tables hold in the tables checked (values in
\* units of 1 / SCALE)
GamesPlayedFind == {5, 6}
SeasonValues == {0, 1000}
PerGameValues == {0, 2000}

\* The frame analyze_data ranks: row i carries the label i + 1
ValuedFrame(names, gp, sv, pgv) ==
    [index   |-> [i \in DOMAIN names |-> i + 1],
     columns |-> COLUMN_ORDER \o <<"Season Value", "Per Game Value">>,
     data    |-> [i \in DOMAIN names |->
                    [c \in Range(COLUMN_ORDER) \cup {"Season Value", "Per Game Value"} |->
                        CASE c = "Player"         -> names[i]
                          [] c = "Team"           -> "NYI"
                          [] c = "Position"       -> "C"
                          [] c = "GP"             -> Num(gp[i])
                          [] c = "Season Value"   -> Num(sv[i])
                          [] c = "Per Game Value" -> Num(pgv[i])
                          [] OTHER                -> Num(0)]]]

\* The two tables analyze_data returns for one set of players: the same rows,
\* each table in the order of its own value
InitFind ==
    /\ \E n \in 1..MaxPlayers :
         \E names \in [1..n -> Range(PlayerNames)], gp \in [1..n -> GamesPlayedFind],
            sv \in [1..n -> SeasonValues], pgv \in [1..n -> PerGameValues] :
            LET df == ValuedFrame(names, gp, sv, pgv)
            IN  \E ps \in sort_values(Column(df, "Season Value")),
                   pg \in sort_values(Column(df, "Per Game Value")) :
                  /\ fv_season = Projected(Reordered(df, ps), "Season Value", n)
                  /\ fv_pergame = Projected(Reordered(df, pg), "Per Game Value", n)
    /\ fv_result = <<>>
    /\ fstep = "input"

FindInit == InitLoader /\ IdleMerge /\ IdleAnalyze /\ InitFind

FindNext == FindValue

SpecFind == FindInit /\ [][FindNext]_vars

(***************************************************************************)
(* Claims about the loaders and main(), checked under Spec.                *)
(***************************************************************************)
\* What the source served at time t, as it lies on disk once persisted
Served(file, t) == IF file \in StatFiles THEN HtmlTable(file, t) ELSE FantraxCsv(t)

\* C1's staleness window, from what the load saw: a statistical snapshot younger
\* than one hour, a roster snapshot modified on the current (UTC) day
InsideWindow(file, mtime, t) ==
    IF file \in StatFiles THEN t - mtime < 3600 ELSE mtime \div 86400 = t \div 86400

\* C1: a load returns the cached snapshot if and only if the snapshot exists and
\* is inside its staleness window; in every other case it invokes the source,
\* persists what the source served as the new snapshot and returns it; so every
\* table a load returns left the source no longer ago than the staleness window.
C1_LoadServesFreshOrFetches ==
    lastLoad.file # NoFile =>
        LET f == lastLoad.file
        IN  /\ lastLoad.hit <=>
                  (lastLoad.existed /\ InsideWindow(f, lastLoad.mtime, lastLoad.at))
            /\ lastLoad.hit =>
                  /\ lastLoad.invoked = 0
                  /\ lastLoad.table \in {ReadIndexed(disk[f].csv, 1000), ReadPlain(disk[f].csv, 1000)}
                  /\ disk[f].mtime = lastLoad.mtime
            /\ ~lastLoad.hit => lastLoad.invoked = 1
            /\ (~lastLoad.hit /\ lastLoad.ok) =>
                  /\ disk[f].exists
                  /\ disk[f].mtime = lastLoad.at
                  /\ disk[f].csv = Served(f, lastLoad.at)
                  /\ lastLoad.table \in {ReadIndexed(disk[f].csv, 1000), ReadPlain(disk[f].csv, 1000)}
            /\ lastLoad.ok =>
                  /\ disk[f].csv = Served(f, fetchedAt[f])
                  /\ InsideWindow(f, fetchedAt[f], lastLoad.at)

\* C1's witness: a statistical snapshot exactly one hour old is fetched again
C1_Witness ==
    /\ lastLoad.file \in StatFiles
    /\ lastLoad.existed
    /\ lastLoad.at - lastLoad.mtime = 3600
    /\ ~lastLoad.hit
    /\ lastLoad.ok

\* The position of main() at which `file` is loaded
StageOf(file) ==
    CASE file = ALL_STRENGTHS -> "load_all"
      [] file = EVEN_STRENGTH -> "load_even"
      [] OTHER                -> "fantrax"

\* C2: when a fetch fails the run aborts: the source is not invoked again for
\* that dataset, no later stage runs and no sink receives a table.
C2_FetchFailureAbortsRun ==
    failed # NoFile =>
        /\ pc = "aborted"
        /\ fetches[failed] = 1
        /\ sinks = {}
        /\ Len(ran) >= 1 /\ ran[Len(ran)] = StageOf(failed)
        /\ \A i \in DOMAIN ran : ran[i] = StageOf(failed) => i = Len(ran)
        /\ Range(ran) \cap {"analyze", "visualize", "publish_season", "publish_pergame"} = {}
        /\ failed \in StatFiles => "merge" \notin Range(ran)

\* C2's witness: the roster fetch failed after both statistical loads and the merge
C2_Witness ==
    /\ failed = FANTRAX
    /\ pc = "aborted"
    /\ ran = <<"load_all", "load_even", "merge", "fantrax">>

\* C9: a load served from the cache returns the table, same columns, row keys and
\* values, that the load which fetched and persisted the snapshot returned.
C9_CacheHitVerbatim ==
    (lastLoad.file # NoFile /\ lastLoad.hit) => lastLoad.table = fetchLoad[lastLoad.file]

(***************************************************************************)
(* Claims about add_d_and_stp, checked under SpecMerge.                    *)
(***************************************************************************)
MergeCalled == heap0 # <<>>

\* C3: merging tables whose row counts differ raises AlignmentMismatch and
\* produces no merged table (so nothing is truncated or padded silently).
C3_RowCountMismatchRaises ==
    (MergeCalled /\ Len(heap0[RefAll].index) # Len(heap0[RefEven].index)) =>
        /\ raised = "AlignmentMismatch"
        /\ all_stats_df = NoRef

\* The (Player, Team) identities a table lists
IdentitiesOf(df) == {<<df.data[i]["Player"], df.data[i]["Team"]>> : i \in DOMAIN df.data}

\* C7: in every row of the merged table, Special Teams Points is the row's
\* all-strengths Total Points minus the Total Points of the even-strength row of
\* the same (Player, Team), whatever the order or labels of the even-strength
\* rows. (Stated for two source tables that list the same players.)
C7_StpBySamePlayerAndTeam ==
    (/\ MergeCalled
     /\ all_stats_df # NoRef
     /\ IdentitiesOf(heap0[RefAll]) = IdentitiesOf(heap0[RefEven])) =>
        LET out  == heap[all_stats_df]
            even == heap0[RefEven]
            Ident(row) == <<row["Player"], row["Team"]>>
        IN  \A i \in DOMAIN out.data : \A j \in DOMAIN even.data :
                Ident(out.data[i]) = Ident(even.data[j])
                => out.data[i]["Special Teams Points"]
                     = FSub(out.data[i]["Total Points"], even.data[j]["Total Points"])

\* C8 as stated: after the merge both source tables hold exactly what they held
\* before the call, and the merged table is a new table.
C8_MergeLeavesInputsUntouched ==
    MergeCalled =>
        /\ heap[all_strengths] = heap0[all_strengths]
        /\ heap[even_strength] = heap0[even_strength]
        /\ all_stats_df \notin {all_strengths, even_strength}

\* C8 as amended: the merge leaves the even-strength table untouched; it adds
\* the columns D Points and Special Teams Points to the all-strengths table in
\* place, every other column, value and row label of it kept, and returns that
\* same table: no new table is made.
C8_MergeAddsColumnsInPlace ==
    MergeCalled =>
        /\ heap[even_strength] = heap0[even_strength]
        /\ all_stats_df = all_strengths
        /\ DOMAIN heap = DOMAIN heap0
        /\ heap[all_strengths].index = heap0[all_strengths].index
        /\ heap[all_strengths].columns
             = heap0[all_strengths].columns \o <<"D Points", "Special Teams Points">>
        /\ \A i \in DOMAIN heap0[all_strengths].data :
             \A c \in Range(heap0[all_strengths].columns) :
                heap[all_strengths].data[i][c] = heap0[all_strengths].data[i][c]

\* C8's witness: the merge has returned and the all-strengths table has changed
C8_Witness ==
    /\ MergeCalled
    /\ all_stats_df = RefAll
    /\ Len(heap[RefAll].columns) = Len(heap0[RefAll].columns) + 2
    /\ heap[RefEven] = heap0[RefEven]

(***************************************************************************)
(* Claims about analyze_data, checked under SpecAnalyze.                   *)
(***************************************************************************)
\* A ranked table over n input rows: Rank is a permutation of 1..n, the value
\* never increases as Rank increases, and rows of equal value are ranked in
\* input order (row i of the input carries the label i + 1)
RankedStably(T, by, n) ==
    /\ Len(T.data) = n
    /\ {T.data[r]["Rank"] : r \in DOMAIN T.data} = 1..n
    /\ \A r1, r2 \in DOMAIN T.data :
         T.data[r1]["Rank"] < T.data[r2]["Rank"] =>
            /\ T.data[r1][by].v >= T.data[r2][by].v
            /\ T.data[r1][by].v = T.data[r2][by].v => T.index[r1] < T.index[r2]

\* C4: in both tables analyze_data returns, Rank is a permutation of 1..N, the
\* Value never increases as Rank increases, and rows of equal Value are ranked
\* in their input order.
C4_RankDenseDescendingStable ==
    astep = "done" =>
        /\ RankedStably(season_rankings, "Season Value", Len(merged.data))
        /\ RankedStably(per_game_rankings, "Per Game Value", Len(merged.data))

\* The z-scores a category should get when its missing cells are left out: those
\* of the column of its finite cells, and NaN (no contribution) at a missing cell
ZLeavingOutMissing(col) ==
    LET present == SelectSeq(col, IsNum)
        z       == zscore(present)
    IN  [i \in DOMAIN col |->
            IF IsNum(col[i]) THEN z[Cardinality({j \in 1..i : IsNum(col[j])})] ELSE NaN]

\* C6: a missing cell (text that is no number, or a rate undefined for GP = 0) is
\* left out of its category's normalisation for that cell only: it adds nothing
\* to its player's Value, no infinity is carried into the tables, and every other
\* player's z-score in the category is the one computed over the cells present.
C6_MissingCellLeftOutLocally ==
    astep = "done" =>
        /\ \A c \in Range(categories) :
             /\ [i \in DOMAIN zseason |-> zseason[i][c]]
                  = ZLeavingOutMissing([i \in DOMAIN merged.data |-> to_numeric(merged.data[i][c])])
             /\ [i \in DOMAIN filtered_data |-> filtered_data[i][c]]
                  = ZLeavingOutMissing([i \in DOMAIN dataframe.data |-> dataframe.data[i][c]])
        /\ \A r \in DOMAIN per_game_rankings.data : \A c \in Range(categories) :
             ~IsInf(per_game_rankings.data[r][c])
        /\ \A r \in DOMAIN season_rankings.data :
             season_rankings.data[r]["Season Value"]
               = RowSum(zseason[season_rankings.index[r] - 1])
        /\ \A r \in DOMAIN per_game_rankings.data :
             per_game_rankings.data[r]["Per Game Value"]
               = RowSum(filtered_data[per_game_rankings.index[r] - 1])

(***************************************************************************)
(* Claims about find_value, checked under SpecFind.                        *)
(***************************************************************************)
\* The input rows behind the two ranked tables: a row is known by its label
RowOf(T, label) == T.data[CHOOSE r \in DOMAIN T.data : T.index[r] = label]

Qualifies(label) ==
    /\ RowOf(fv_season, label)["GP"].v > 5
    /\ RowOf(fv_pergame, label)["GP"].v > 5
    /\ RowOf(fv_pergame, label)["Per Game Value"].v > RowOf(fv_season, label)["Season Value"].v

\* The reference result before the sort: one entry per player with GP > 5 in
\* both tables and Discrepancy = Per Game Value - Season Value > 0
Reference ==
    LET labels == SortInts({l \in Range(fv_season.index) : Qualifies(l)})
    IN  [n \in DOMAIN labels |->
            [key |-> RowOf(fv_season, labels[n])["Player"],
             val |-> FSub(RowOf(fv_pergame, labels[n])["Per Game Value"],
                          RowOf(fv_season, labels[n])["Season Value"])]]

\* C5: find_value returns exactly the reference result: the players with GP > 5
\* whose Discrepancy is > 0, sorted by Discrepancy, largest first, and cut to the
\* first 50 (entries of equal Discrepancy in either order).
C5_FindValueIsReference ==
    fstep = "done" =>
        \E p \in sort_values(Reference) :
            fv_result = Take([r \in DOMAIN p |-> Reference[p[r]]], 50)

\* C10: the result holds at most one row for a player name, and that row's
\* Discrepancy is the Per Game Value minus the Season Value of one and the same
\* input row of that name.
C10_OneRowPerNameFromOneInputRow ==
    fstep = "done" =>
        /\ \A r1, r2 \in DOMAIN fv_result : r1 # r2 => fv_result[r1].key # fv_result[r2].key
        /\ \A r \in DOMAIN fv_result :
             \E l \in Range(fv_season.index) :
                /\ RowOf(fv_season, l)["Player"] = fv_result[r].key
                /\ fv_result[r].val = FSub(RowOf(fv_pergame, l)["Per Game Value"],
                                           RowOf(fv_season, l)["Season Value"])

====
